---- MODULE Spec2Model ----
(***************************************************************************)
(* adcdutil: the convert and dump commands of src/adcdutil.py over a       *)
(* destination directory.  A string is a sequence of one-character         *)
(* strings; a path, a file name, a command-line word are all strings in    *)
(* that sense.                                                             *)
(***************************************************************************)
EXTENDS Integers, Sequences, FiniteSets, TLC

(***************************************************************************)
(* Strings                                                                 *)
(***************************************************************************)

\* The characters in use, in code-point order (Python compares str by code point).
Ascii ==
  << " ", "-", ".", "/", "0", "1", "2", "3", "4", "5", "6", "7", "8", "9", ":", ";",
     "A", "B", "C", "D", "E", "F", "G", "H", "I", "J", "K", "L", "M",
     "N", "O", "P", "Q", "R", "S", "T", "U", "V", "W", "X", "Y", "Z",
     "_",
     "a", "b", "c", "d", "e", "f", "g", "h", "i", "j", "k", "l", "m",
     "n", "o", "p", "q", "r", "s", "t", "u", "v", "w", "x", "y", "z" >>

Chars == {Ascii[i] : i \in 1..Len(Ascii)}

Ord == [c \in Chars |-> CHOOSE i \in 1..Len(Ascii) : Ascii[i] = c]

IsUpper(c) == Ord[c] >= Ord["A"] /\ Ord[c] <= Ord["Z"]
IsLower(c) == Ord[c] >= Ord["a"] /\ Ord[c] <= Ord["z"]

LowerChar(c) == IF IsUpper(c) THEN Ascii[Ord[c] - Ord["A"] + Ord["a"]] ELSE c
UpperChar(c) == IF IsLower(c) THEN Ascii[Ord[c] - Ord["a"] + Ord["A"]] ELSE c

\* str.lower()
RECURSIVE lower(_)
lower(s) == IF s = <<>> THEN <<>> ELSE <<LowerChar(Head(s))>> \o lower(Tail(s))

\* str.upper()
RECURSIVE upper(_)
upper(s) == IF s = <<>> THEN <<>> ELSE <<UpperChar(Head(s))>> \o upper(Tail(s))

\* s < t for Python str
StrLess(s, t) ==
  \E k \in 1..(Len(t)) :
     /\ \A i \in 1..(k - 1) : i <= Len(s) /\ s[i] = t[i]
     /\ \/ Len(s) = k - 1
        \/ Len(s) >= k /\ Ord[s[k]] < Ord[t[k]]

\* sub in s
Contains(s, sub) ==
  \E k \in 0..(Len(s) - Len(sub)) : \A i \in 1..Len(sub) : s[k + i] = sub[i]

\* s.rfind(c) + 1: the position of the last c of s, 0 when there is none
RFind(s, c) ==
  IF \E i \in 1..Len(s) : s[i] = c
    THEN CHOOSE i \in 1..Len(s) : s[i] = c /\ \A j \in (i + 1)..Len(s) : s[j] # c
    ELSE 0

\* s.find(c) + 1
Find(s, c) ==
  IF \E i \in 1..Len(s) : s[i] = c
    THEN CHOOSE i \in 1..Len(s) : s[i] = c /\ \A j \in 1..(i - 1) : s[j] # c
    ELSE 0

\* os.path.basename
basename(p) == SubSeq(p, RFind(p, "/") + 1, Len(p))

\* os.path.splitext: the extension starts at the last dot of the last
\* component, unless only dots precede it there
SplitAt(p) ==
  LET sep == RFind(p, "/")
      dot == RFind(p, ".")
  IN IF dot > sep /\ \E i \in (sep + 1)..(dot - 1) : p[i] # "."
       THEN dot
       ELSE Len(p) + 1

splitext0(p) == SubSeq(p, 1, SplitAt(p) - 1)

\* s.split("_")[0]
split0(s) == IF Find(s, "_") = 0 THEN s ELSE SubSeq(s, 1, Find(s, "_") - 1)

\* os.path.join(a, b)
join(a, b) ==
  IF Len(b) > 0 /\ b[1] = "/" THEN b
  ELSE IF Len(a) = 0 \/ a[Len(a)] = "/" THEN a \o b
  ELSE a \o <<"/">> \o b

\* os.path.join(a, b, c)
join3(a, b, c) == join(join(a, b), c)

(***************************************************************************)
(* Words of the program text                                               *)
(***************************************************************************)

DASDCOPY == <<"d", "a", "s", "d", "c", "o", "p", "y">>
HETUPD == <<"h", "e", "t", "u", "p", "d">>
UNZIP == <<"u", "n", "z", "i", "p">>

EXT_IPL == <<".", "I", "P", "L">>
EXT_ZIP == <<".", "Z", "I", "P">>
EXT_HET == <<".", "h", "e", "t">>
EXT_IMG == <<".", "i", "m", "g">>
ALIAS == <<";", "1">>

CKD == <<"C", "K", "D">>
CCKD == <<"C", "C", "K", "D">>
FBA == <<"F", "B", "A">>
CFBA == <<"C", "F", "B", "A">>

\* click.Choice of --output-format and of --compression
OutputFormats == {CKD, CCKD, FBA, CFBA}
Compressions == {"zlib", "bzip2", "none"}

\* convert's list of required commands
RequiredCommands == <<DASDCOPY, HETUPD, UNZIP>>

\* --destination not given
NoneDest == <<>>

\* os.getcwd()
getcwd == <<"/", "w">>

(***************************************************************************)
(* Bounds of the explored inputs                                           *)
(***************************************************************************)

\* entries of an archive
MaxEntries == 3
\* files on the disc
MaxFiles == 3
\* files in the destination directory before the run
MaxPre == 1
\* runs of dump, one after the other
MaxDumps == 2

(***************************************************************************)
(* The disc, the archives, the destination directory                       *)
(***************************************************************************)

D1 == <<"/", "D", "1">>
D2 == <<"/", "D", "2">>
D1S == <<"/", "D", "1", "/", "S">>

\* a tape and a volume of distribution D1, a tape of D2, a tape one level
\* deeper; a tape of D2 named like the one of D1, a second version of the tape
\* of D1, a tape of D1 that sorts before it, a tape named in lower case
F_T1 == [root |-> D1, name |-> <<"T", "1", ".", "I", "P", "L", ";", "1">>]
F_V1 == [root |-> D1, name |-> <<"V", "1", ".", "Z", "I", "P", ";", "1">>]
F_T0 == [root |-> D2, name |-> <<"T", "0", ".", "I", "P", "L", ";", "1">>]
F_T3 == [root |-> D1S, name |-> <<"T", "3", ".", "I", "P", "L", ";", "1">>]

F_T1B == [root |-> D2, name |-> <<"T", "1", ".", "I", "P", "L", ";", "1">>]
F_T1V2 == [root |-> D1, name |-> <<"T", "1", ".", "I", "P", "L", ";", "2">>]
F_T0D1 == [root |-> D1, name |-> <<"T", "0", ".", "I", "P", "L", ";", "1">>]
F_LOW == [root |-> D1, name |-> <<"t", "2", ".", "i", "p", "l">>]

FilePool == {F_T1, F_V1, F_T0, F_T3, F_T1B, F_T1V2, F_T0D1, F_LOW}

\* the sequences over S of length at most n
RECURSIVE SeqsUpTo(_, _)
SeqsUpTo(S, n) ==
  IF n = 0 THEN {<<>>}
  ELSE LET shorter == SeqsUpTo(S, n - 1)
       IN shorter \cup {Append(q, x) : q \in {r \in shorter : Len(r) = n - 1}, x \in S}

\* those without repetition
InjSeqs(S, n) ==
  {q \in SeqsUpTo(S, n) : \A i, j \in 1..Len(q) : i < j => q[i] # q[j]}

\* the discs: the files in the order the walk meets them
Discs == InjSeqs(FilePool, MaxFiles)

\* archive entries: names with and without a directory part, one whose name is
\* the archive copy's, one named like a converted volume, a directory entry,
\* one whose data cannot be read, and one of a compression method zipfile does
\* not decompress.  ok: the entry's data can be read; sup: zipfile supports
\* the entry's method.
E_V1 == [name |-> <<"V", "_", "1">>, ok |-> TRUE, sup |-> TRUE]
E_V2 == [name |-> <<"V", "_", "2">>, ok |-> TRUE, sup |-> TRUE]
E_SV1 == [name |-> <<"s", "/", "V", "_", "1">>, ok |-> TRUE, sup |-> TRUE]
E_ZIP == [name |-> <<"V", "1", ".", "Z", "I", "P">>, ok |-> TRUE, sup |-> TRUE]
E_OUT == [name |-> <<"V", ".", "c", "c", "k", "d">>, ok |-> TRUE, sup |-> TRUE]
E_DIR == [name |-> <<"s", "/">>, ok |-> TRUE, sup |-> TRUE]
E_BAD == [name |-> <<"V", "_", "3">>, ok |-> FALSE, sup |-> TRUE]
E_UNS == [name |-> <<"V", "_", "4">>, ok |-> TRUE, sup |-> FALSE]

EntryPool == {E_V1, E_V2, E_SV1, E_ZIP, E_OUT, E_DIR, E_BAD, E_UNS}

\* the archives: entries in stored order; zipfile finds an entry by its name,
\* so the names of an archive are distinct
Archives == [entries : InjSeqs(EntryPool, MaxEntries)]

DefaultDisc == <<F_T1, F_V1>>
DefaultArchive == [entries |-> <<E_V1, E_V2>>]
SingleArchive == [entries |-> <<E_V1>>]

Destinations == {NoneDest, <<"a", "_", "b">>}

DestOf(destination) == IF destination = NoneDest THEN getcwd ELSE destination

\* file contents: what wrote the file and from what
Content(kind, src, n) == [kind |-> kind, src |-> src, n |-> n]

\* the paths a run on DefaultDisc reads or writes
PrePaths(destination, output_format) ==
  LET dest == DestOf(destination)
      frag == join(dest, <<"V", "_", "1">>)
      img == split0(frag) \o EXT_IMG
  IN { join(dest, <<"T", "1">> \o EXT_IPL),
       join(dest, <<"T", "1">> \o EXT_HET),
       join(dest, <<"V", "1">> \o EXT_ZIP),
       frag,
       img,
       splitext0(img) \o <<".">> \o lower(output_format) }

AllCommands == {RequiredCommands[i] : i \in 1..Len(RequiredCommands)}

\* the runs explored: every configuration on the default disc, every disc
\* with the default archive, every archive as the disc's only volume, every
\* set of missing commands
ConfigRuns ==
  UNION { [ mode : {"convert"}, installed : {AllCommands}, disc : {DefaultDisc},
            archive : {DefaultArchive, SingleArchive},
            destination : {d}, force : BOOLEAN, compression : Compressions,
            output_format : {o},
            pre : {P \in SUBSET PrePaths(d, o) : Cardinality(P) <= MaxPre} ]
          : d \in Destinations, o \in OutputFormats }

DiscRuns ==
  [ mode : {"convert"}, installed : {AllCommands}, disc : Discs,
    archive : {DefaultArchive},
    destination : Destinations, force : BOOLEAN, compression : {"zlib"},
    output_format : {CCKD}, pre : {{}} ]

ArchiveRuns ==
  [ mode : {"convert"}, installed : {AllCommands}, disc : {<<F_V1>>},
    archive : Archives,
    destination : Destinations, force : BOOLEAN, compression : {"zlib"},
    output_format : {CCKD}, pre : {{}} ]

ToolRuns ==
  [ mode : {"convert"}, installed : (SUBSET AllCommands) \ {AllCommands},
    disc : {DefaultDisc},
    archive : {DefaultArchive}, destination : {NoneDest}, force : {FALSE},
    compression : {"zlib"}, output_format : {CCKD}, pre : {{}} ]

\* a tape the lookup does not find, with or without a file where its copy goes
LookupRuns ==
  UNION { [ mode : {"convert"}, installed : {AllCommands},
            disc : {<<F_T3>>, <<F_T1, F_T3>>}, archive : {DefaultArchive},
            destination : {d}, force : BOOLEAN, compression : {"zlib"},
            output_format : {CCKD},
            pre : SUBSET {join(DestOf(d), <<"T", "3">> \o EXT_IPL)} ]
          : d \in Destinations }

\* dump of every disc, over a destination directory with or without files
DumpRuns ==
  [ mode : {"dump"}, installed : {AllCommands}, disc : Discs,
    archive : {DefaultArchive}, destination : {NoneDest}, force : {FALSE},
    compression : {"zlib"}, output_format : {CCKD},
    pre : {{}, {join(getcwd, <<"T", "1">> \o EXT_HET)}} ]

Runs == ConfigRuns \cup DiscRuns \cup ArchiveRuns \cup ToolRuns \cup LookupRuns
        \cup DumpRuns

(***************************************************************************)
(* State                                                                   *)
(***************************************************************************)

VARIABLES
  mode,           \* the command run: "convert" or "dump"
  installed,      \* the commands shutil.which finds
  disc,           \* the files of the disc image, in walk order
  archive,        \* what every .ZIP of the disc holds
  destination,    \* --destination
  force,          \* --force
  compression,    \* --compression
  output_format,  \* --output-format
  fs0,            \* the files before the run: path -> content
  fs,             \* the files now
  pc,             \* where convert is
  status,         \* the exit status once pc = "exit", -1 before
  error,          \* what ended the run, "" when nothing did
  todo,           \* the (dist, unit) pairs the current loop has not started
  dist,           \* the distribution of the unit being worked on
  unit,           \* the tape or volume being worked on
  tape_in,        \* convertTape's tape_in
  zip_filename,   \* extractVolume's zip_filename
  contents,       \* extractZip: the entries not yet yielded
  strategy,       \* extractZip: "zipfile" or "unzip"
  images,         \* extractVolume's images, convert's images once returned
  vol_in,         \* convert's vol_in
  log,            \* every file operation and command so far, in order
  catalog,        \* what the last walkISO returned
  outputs,        \* the final outputs of the units done: path and content
  stdout          \* what each run of the command has printed, line by line

inputs ==
  <<mode, installed, disc, archive, destination, force, compression, output_format,
    fs0>>

\* what the steps record of their results
obs == <<catalog, outputs, stdout>>

locals == <<todo, dist, unit, tape_in, zip_filename, contents, strategy, images, vol_in>>

vars == <<inputs, fs, pc, status, error, locals, log, obs>>

\* dest = os.getcwd() when dest is None
dest == DestOf(destination)

(***************************************************************************)
(* Files                                                                   *)
(***************************************************************************)

\* a directory that exists: the destination itself, named with a trailing slash
IsDir(p) == p = dest \o <<"/">> \/ p = dest

\* os.path.exists
exists(f, p) == p \in DOMAIN f \/ IsDir(p)

\* open(p, "wb") followed by writing c
Write(f, p, c) == [q \in DOMAIN f \cup {p} |-> IF q = p THEN c ELSE f[q]]

\* os.remove of a file that exists
Remove(f, p) == [q \in DOMAIN f \ {p} |-> f[q]]

\* convertTape without line 128: the tape copy is kept
TapeDoneKeepsInput(f, tin, tout) == Write(f, tout, Content("het", f[tin].src, 0))

\* the files once hetupd has exited with 0 and line 128 has run: the output
\* holds the conversion of the tape that was copied to tin
TapeDone(f, tin, tout) == Remove(Write(f, tout, Content("het", f[tin].src, 0)), tin)

\* the files once dasdcopy has exited with 0 and line 246 has run
VolDone(f, vin, vout) == Remove(Write(f, vout, Content("dasd", vin, 0)), vin)

\* the final outputs once a unit is done with output file p
Produced(outs, f, p) ==
  IF p \in DOMAIN f THEN Append(outs, [path |-> p, content |-> f[p]]) ELSE outs

\* one entry of the log
Ev(op, path, ret, cmd) == [op |-> op, path |-> path, ret |-> ret, cmd |-> cmd]

(***************************************************************************)
(* requireCommands, walkISO, checkPath                                     *)
(***************************************************************************)

\* requireCommands stopping at the first command it does not find
MissingFirstOnly(commands, inst) ==
  IF \E i \in 1..Len(commands) : commands[i] \notin inst
    THEN <<commands[CHOOSE i \in 1..Len(commands) :
                      /\ commands[i] \notin inst
                      /\ \A j \in 1..(i - 1) : commands[j] \in inst]>>
    ELSE <<>>

\* requireCommands: the commands shutil.which does not find, in order
RECURSIVE Missing(_, _)
Missing(commands, inst) ==
  IF commands = <<>> THEN <<>>
  ELSE (IF Head(commands) \in inst THEN <<>> ELSE <<Head(commands)>>)
       \o Missing(Tail(commands), inst)

\* found[parent].append(unit), found kept as (parent, units) pairs in
\* insertion order
AddFound(found, parent, u) ==
  IF \E i \in 1..Len(found) : found[i][1] = parent
    THEN [i \in 1..Len(found) |->
            IF found[i][1] = parent THEN <<parent, Append(found[i][2], u)>>
            ELSE found[i]]
    ELSE Append(found, <<parent, <<u>>>>)

RECURSIVE WalkFrom(_, _, _)
WalkFrom(d, extension, found) ==
  IF d = <<>> THEN found
  ELSE LET f == Head(d)
       IN WalkFrom(Tail(d), extension,
                   IF Contains(lower(f.name), <<".">> \o extension)
                     THEN AddFound(found, basename(f.root), splitext0(f.name))
                     ELSE found)

walkISO(d, extension) == WalkFrom(d, extension, <<>>)

getTapes(d) == walkISO(d, <<"i", "p", "l">>)
getVolumes(d) == walkISO(d, <<"z", "i", "p">>)

\* for dist, units in found.items(): for unit in units
RECURSIVE Pairs(_, _)
Pairs(parent, units) ==
  IF units = <<>> THEN <<>>
  ELSE <<<<parent, Head(units)>>>> \o Pairs(parent, Tail(units))

RECURSIVE Flatten(_)
Flatten(found) ==
  IF Len(found) = 0 THEN <<>>
  ELSE Pairs(found[1][1], found[1][2]) \o Flatten(SubSeq(found, 2, Len(found)))

\* checkPath that reports an existing path and never ends the run
checkPathNeverExits(f, path, overwrite) ==
  IF exists(f, path) THEN "true" ELSE "false"

\* checkPath: "false", "true", or "exit" for sys.exit(1)
checkPath(f, path, overwrite) ==
  IF exists(f, path)
    THEN IF overwrite THEN "true" ELSE "exit"
    ELSE "false"

(***************************************************************************)
(* Command lines                                                           *)
(***************************************************************************)

\* convertTape's cmd
TapeCmd(comp, tin, tout) ==
  <<HETUPD>>
  \o (IF comp = "zlib" THEN <<<<"-", "z">>>>
      ELSE IF comp = "bzip2" THEN <<<<"-", "b">>>>
      ELSE IF comp = "none" THEN <<<<"-", "d">>>>
      ELSE <<>>)
  \o <<tin, tout>>

\* convert's join cmd; chk is what checkPath(vol_in, force) returned
JoinCmd(chk, first, vin) ==
  <<DASDCOPY, <<"-", "q">>>>
  \o (IF chk = "true" THEN <<<<"-", "r">>>> ELSE <<>>)
  \o <<<<"-", "l", "f", "s">>, first, vin>>

\* the conversion cmd with the tape command's word for bzip2
VolCmdTapeFlags(chk, comp, fmt, vin, vout) ==
  <<DASDCOPY, <<"-", "q">>>>
  \o (IF chk = "true" THEN <<<<"-", "r">>>> ELSE <<>>)
  \o (IF comp = "zlib" THEN <<<<"-", "z">>>>
      ELSE IF comp = "bzip2" THEN <<<<"-", "b">>>>
      ELSE IF comp = "none" THEN <<<<"-", "0">>>>
      ELSE <<>>)
  \o <<<<"-", "o">>, upper(fmt), vin, vout>>

\* convert's conversion cmd; chk is what checkPath(vol_out, force) returned
VolCmd(chk, comp, fmt, vin, vout) ==
  <<DASDCOPY, <<"-", "q">>>>
  \o (IF chk = "true" THEN <<<<"-", "r">>>> ELSE <<>>)
  \o (IF comp = "zlib" THEN <<<<"-", "z">>>>
      ELSE IF comp = "bzip2" THEN <<<<"-", "b", "z", "2">>>>
      ELSE IF comp = "none" THEN <<<<"-", "0">>>>
      ELSE <<>>)
  \o <<<<"-", "o">>, upper(fmt), vin, vout>>

\* tape_out
TapeOut(d, tape) == join(d, tape \o EXT_HET)

\* vol_in of a multi-file image
JoinTarget(imgs) == split0(imgs[1]) \o EXT_IMG

\* vol_out
VolOut(vin, fmt) == splitext0(vin) \o <<".">> \o lower(fmt)

\* sorted(images): insertion sort, equal paths kept
RECURSIVE Insert(_, _)
Insert(x, sq) ==
  IF sq = <<>> THEN <<x>>
  ELSE IF StrLess(x, Head(sq)) THEN <<x>> \o sq
  ELSE <<Head(sq)>> \o Insert(x, Tail(sq))

RECURSIVE sorted(_)
sorted(sq) ==
  IF sq = <<>> THEN <<>> ELSE Insert(sq[Len(sq)], sorted(SubSeq(sq, 1, Len(sq) - 1)))

(***************************************************************************)
(* getFileFromIso                                                          *)
(***************************************************************************)

\* whether the disc holds a file at iso_path
OnDisc(d, iso_path) == \E i \in 1..Len(d) : join(d[i].root, d[i].name) = iso_path

\* getFileFromIso on files f.  res is "ok", "exit" (checkPath ended the
\* run) or "raise" (the unit is on the disc under neither name).  leftover
\* is whether the library created the destination file before it failed to
\* find the unit.
getFileFromIso(f, d, dst, dname, filename, overwrite, leftover) ==
  LET dest_filename == join(DestOf(dst), filename)
      chk == checkPath(f, dest_filename, overwrite)
      f1 == IF chk = "true" THEN Remove(f, dest_filename) ELSE f
      plain == join3(<<"/">>, dname, filename)
      alias == join3(<<"/">>, dname, filename \o ALIAS)
      found == IF OnDisc(d, plain) THEN plain
               ELSE IF OnDisc(d, alias) THEN alias
               ELSE <<>>
      opened == <<Ev("open", <<>>, "iso", <<>>), Ev("check", dest_filename, chk, <<>>)>>
      removed == IF chk = "true" THEN <<Ev("remove", dest_filename, "", <<>>)>> ELSE <<>>
      written == <<Ev("write", dest_filename, "", <<>>)>>
  IN IF chk = "exit"
       THEN [res |-> "exit", fs |-> f, path |-> dest_filename, ev |-> opened]
     ELSE IF found # <<>>
       THEN [res |-> "ok", fs |-> Write(f1, dest_filename, Content("iso", found, 0)),
             path |-> dest_filename,
             ev |-> opened \o removed \o written \o <<Ev("close", <<>>, "iso", <<>>)>>]
     ELSE [res |-> "raise",
           fs |-> IF leftover THEN Write(f1, dest_filename, Content("empty", <<>>, 0))
                  ELSE f1,
           path |-> dest_filename,
           ev |-> opened \o removed \o (IF leftover THEN written ELSE <<>>)]

\* for img in images: os.remove(img), stopping at the first that is not there
RECURSIVE RemoveEach(_, _)
RemoveEach(f, imgs) ==
  IF imgs = <<>> THEN [ok |-> TRUE, fs |-> f, ev |-> <<>>]
  ELSE IF Head(imgs) \notin DOMAIN f THEN [ok |-> FALSE, fs |-> f, ev |-> <<>>]
  ELSE LET rest == RemoveEach(Remove(f, Head(imgs)), Tail(imgs))
       IN [ok |-> rest.ok, fs |-> rest.fs,
           ev |-> <<Ev("remove", Head(imgs), "", <<>>)>> \o rest.ev]

(***************************************************************************)
(* convert                                                                 *)
(***************************************************************************)

Init ==
  /\ \E r \in Runs :
       /\ mode = r.mode
       /\ installed = r.installed
       /\ disc = r.disc
       /\ archive = r.archive
       /\ destination = r.destination
       /\ force = r.force
       /\ compression = r.compression
       /\ output_format = r.output_format
       /\ fs0 = [p \in r.pre |-> Content("old", p, 0)]
  /\ fs = fs0
  /\ pc = "start"
  /\ status = -1
  /\ error = ""
  /\ todo = <<>>
  /\ dist = <<>>
  /\ unit = <<>>
  /\ tape_in = <<>>
  /\ zip_filename = <<>>
  /\ contents = <<>>
  /\ strategy = ""
  /\ images = <<>>
  /\ vol_in = <<>>
  /\ log = <<>>
  /\ catalog = <<>>
  /\ outputs = <<>>
  /\ stdout = <<<<>>>>

\* the run ends with exit status 1: sys.exit(1) or an uncaught exception
Abort(why) ==
  /\ pc' = "exit"
  /\ status' = 1
  /\ error' = why

\* line 175
RequireCommands ==
  /\ mode = "convert"
  /\ pc = "start"
  /\ LET missing == Missing(RequiredCommands, installed)
     IN IF Len(missing) > 0
          THEN /\ Abort("MissingCommands")
               /\ log' = log \o <<Ev("which", <<>>, "", RequiredCommands),
                                  Ev("err", <<>>, "Required commands not found", missing)>>
          ELSE /\ pc' = "get_tapes"
               /\ log' = Append(log, Ev("which", <<>>, "", RequiredCommands))
               /\ UNCHANGED <<status, error>>
  /\ UNCHANGED <<inputs, obs, fs, locals>>

\* lines 176-178
GetTapes ==
  /\ pc = "get_tapes"
  /\ LET iso_tapes == getTapes(disc)
     IN /\ catalog' = iso_tapes
        /\ todo' = Flatten(iso_tapes)
        /\ log' = log \o <<Ev("open", <<>>, "iso", <<>>), Ev("close", <<>>, "iso", <<>>)>>
                      \o (IF Len(iso_tapes) = 0
                            THEN <<Ev("err", <<>>, "No tapes found.", <<>>)>> ELSE <<>>)
  /\ pc' = "tape_loop"
  /\ UNCHANGED <<inputs, outputs, stdout, fs, status, error, dist, unit, tape_in, zip_filename,
                 contents, strategy, images, vol_in>>

\* lines 179-183 and convertTape line 112
TapeGetFile ==
  /\ pc = "tape_loop"
  /\ todo # <<>>
  /\ \E leftover \in BOOLEAN :
       LET d == Head(todo)[1]
           tape == Head(todo)[2]
           got == getFileFromIso(fs, disc, destination, d, tape \o EXT_IPL, force, leftover)
       IN /\ dist' = d
          /\ unit' = tape
          /\ todo' = Tail(todo)
          /\ fs' = got.fs
          /\ log' = log \o got.ev
          /\ IF got.res = "ok"
               THEN /\ tape_in' = got.path
                    /\ pc' = "tape_run"
                    /\ UNCHANGED <<status, error>>
               ELSE /\ Abort(IF got.res = "exit" THEN "PathExists" ELSE "NotFound")
                    /\ UNCHANGED tape_in
  /\ UNCHANGED <<inputs, obs, zip_filename, contents, strategy, images, vol_in>>

\* convertTape lines 113-130; rc is hetupd's exit status
TapeRun ==
  /\ pc = "tape_run"
  /\ \E rc \in {0, 1} :
       LET tape_out == TapeOut(dest, unit)
           cmd == TapeCmd(compression, tape_in, tape_out)
       IN IF rc = 0
            THEN /\ fs' = TapeDone(fs, tape_in, tape_out)
                 /\ log' = log \o <<Ev("run", <<>>, "0", cmd),
                                    Ev("write", tape_out, "", <<>>),
                                    Ev("remove", tape_in, "", <<>>)>>
                 /\ outputs' = Produced(outputs, fs', tape_out)
                 /\ pc' = "tape_loop"
                 /\ UNCHANGED <<status, error>>
            ELSE /\ Abort("CalledProcessError")
                 /\ log' = Append(log, Ev("run", <<>>, "1", cmd))
                 /\ UNCHANGED <<fs, outputs>>
  /\ UNCHANGED <<inputs, catalog, stdout, locals>>

\* lines 191-193, once the tape loop is over
GetVolumes ==
  /\ pc = "tape_loop"
  /\ todo = <<>>
  /\ LET iso_volumes == getVolumes(disc)
     IN /\ catalog' = iso_volumes
        /\ todo' = Flatten(iso_volumes)
        /\ log' = log \o <<Ev("open", <<>>, "iso", <<>>), Ev("close", <<>>, "iso", <<>>)>>
                      \o (IF Len(iso_volumes) = 0
                            THEN <<Ev("err", <<>>, "No volumes found.", <<>>)>> ELSE <<>>)
  /\ pc' = "vol_loop"
  /\ UNCHANGED <<inputs, outputs, stdout, fs, status, error, dist, unit, tape_in, zip_filename,
                 contents, strategy, images, vol_in>>

\* lines 195-199 and extractVolume lines 137-141
VolGetFile ==
  /\ pc = "vol_loop"
  /\ todo # <<>>
  /\ \E leftover \in BOOLEAN :
       LET d == Head(todo)[1]
           vol == Head(todo)[2]
           got == getFileFromIso(fs, disc, destination, d, vol \o EXT_ZIP, force, leftover)
       IN /\ dist' = d
          /\ unit' = vol
          /\ todo' = Tail(todo)
          /\ fs' = got.fs
          /\ log' = log \o got.ev
          /\ images' = <<>>
          /\ IF got.res = "ok"
               THEN /\ zip_filename' = got.path
                    /\ pc' = "vol_open"
                    /\ UNCHANGED <<status, error>>
               ELSE /\ Abort(IF got.res = "exit" THEN "PathExists" ELSE "NotFound")
                    /\ UNCHANGED zip_filename
  /\ UNCHANGED <<inputs, obs, tape_in, contents, strategy, vol_in>>

(***************************************************************************)
(* extractZip and extractVolume                                            *)
(***************************************************************************)

\* zf.namelist(), each name with its entry's position in the archive
RECURSIVE Numbered(_, _)
Numbered(entries, k) ==
  IF entries = <<>> THEN <<>>
  ELSE <<[name |-> Head(entries).name, ok |-> Head(entries).ok,
          sup |-> Head(entries).sup, n |-> k]>>
       \o Numbered(Tail(entries), k + 1)

\* a probe that reads the first entry only
RECURSIVE testzipFirstOnly(_)
testzipFirstOnly(entries) ==
  IF entries = <<>> THEN "none"
  ELSE IF ~Head(entries).sup THEN "raise"
  ELSE IF ~Head(entries).ok THEN "bad"
  ELSE "none"

\* zf.testzip(): reads the entries in stored order; "raise" when it meets an
\* entry of an unsupported method (NotImplementedError), "bad" when it meets
\* one whose data cannot be read, which ends the probe, "none" otherwise
RECURSIVE testzip(_)
testzip(entries) ==
  IF entries = <<>> THEN "none"
  ELSE IF ~Head(entries).sup THEN "raise"
  ELSE IF ~Head(entries).ok THEN "bad"
  ELSE testzip(Tail(entries))

\* the strategy extractZip starts with: the subprocess one exactly when the
\* probe raised NotImplementedError
StrategyOf(a) == IF testzip(a.entries) = "raise" THEN "unzip" ELSE "zipfile"

\* whether the file at zip_filename is still the archive copied from the disc
Intact(f, zp) == zp \in DOMAIN f /\ f[zp].kind = "iso"

\* zfp.read() for entry e.  before, after: whether the archive copy was
\* intact when the stream was made and once the output file was opened;
\* raced: whether an unzip subprocess had read the archive before the output
\* file was opened over it.  raise: the read raises; data: what it returns.
ReadEntry(strat, e, before, after, raced) ==
  IF strat = "zipfile"
    THEN [raise |-> ~(after /\ e.ok), data |-> Content("entry", e.name, e.n)]
    ELSE [raise |-> FALSE,
          data |-> IF e.ok /\ before /\ (after \/ raced)
                     THEN Content("entry", e.name, e.n)
                     ELSE Content("empty", <<>>, 0)]

\* extractZip lines 69-72, 75: the first step of the loop of line 142
VolOpenZip ==
  /\ pc = "vol_open"
  /\ contents' = Numbered(archive.entries, 1)
  /\ strategy' = StrategyOf(archive)
  /\ log' = Append(log, Ev("open", zip_filename, "zip", <<>>))
  /\ pc' = "vol_entry"
  /\ UNCHANGED <<inputs, obs, fs, status, error, todo, dist, unit, tape_in, zip_filename,
                 images, vol_in>>

\* one turn of the loop of lines 142-148, with extractZip's line 74 or 77-82
VolExtractEntry ==
  /\ pc = "vol_entry"
  /\ contents # <<>>
  /\ \E raced \in BOOLEAN :
       LET e == Head(contents)
           before == Intact(fs, zip_filename)
           image == join(dest, basename(e.name))
           chk == checkPath(fs, image, force)
           opened == Write(fs, image, Content("empty", <<>>, 0))
           after == Intact(opened, zip_filename)
           got == ReadEntry(strategy, e, before, after, raced)
           checked == Ev("check", image, chk, <<>>)
           \* the yielded stream: zf.open(fname), or the pipe of the Popen of
           \* lines 77-81
           yielded == IF strategy = "zipfile"
                        THEN Ev("open", e.name, "stream", <<>>)
                        ELSE Ev("open", e.name, "pipe",
                                <<UNZIP, <<"-", "p">>, zip_filename, e.name>>)
       IN IF strategy = "zipfile" /\ ~before
            THEN /\ Abort("BadZipFile")
                 /\ UNCHANGED <<fs, log, images, contents, strategy>>
          ELSE IF strategy = "zipfile" /\ ~e.sup
            THEN \* zf.open raises NotImplementedError inside the try of line 70:
                 \* the loop of lines 76-82 starts over from the first name
                 /\ strategy' = "unzip"
                 /\ contents' = Numbered(archive.entries, 1)
                 /\ UNCHANGED <<fs, log, images, pc, status, error>>
          ELSE IF chk = "exit"
            THEN /\ Abort("PathExists")
                 /\ log' = log \o <<yielded, checked>>
                 /\ UNCHANGED <<fs, images, contents, strategy>>
          ELSE IF IsDir(image)
            THEN /\ Abort("IsADirectoryError")
                 /\ log' = log \o <<yielded, checked>>
                 /\ UNCHANGED <<fs, images, contents, strategy>>
          ELSE IF got.raise
            THEN /\ Abort("BadZipFile")
                 /\ fs' = opened
                 /\ log' = log \o <<yielded, checked, Ev("write", image, "", <<>>)>>
                 /\ UNCHANGED <<images, contents, strategy>>
          ELSE /\ fs' = Write(fs, image, got.data)
               /\ log' = log \o <<yielded, checked, Ev("write", image, "", <<>>)>>
               /\ images' = Append(images, image)
               /\ contents' = Tail(contents)
               /\ UNCHANGED <<pc, status, error, strategy>>
  /\ UNCHANGED <<inputs, obs, todo, dist, unit, tape_in, zip_filename, vol_in>>

\* extractVolume lines 150-152, once extractZip is exhausted and the with
\* statement of line 69 has closed the archive
VolFinish ==
  /\ pc = "vol_entry"
  /\ contents = <<>>
  /\ IF zip_filename \in DOMAIN fs
       THEN /\ fs' = Remove(fs, zip_filename)
            /\ log' = log \o <<Ev("close", zip_filename, "zip", <<>>),
                               Ev("remove", zip_filename, "", <<>>)>>
            /\ images' = sorted(images)
            /\ pc' = "vol_images"
            /\ UNCHANGED <<status, error>>
       ELSE /\ Abort("FileNotFoundError")
            /\ log' = Append(log, Ev("close", zip_filename, "zip", <<>>))
            /\ UNCHANGED <<fs, images>>
  /\ UNCHANGED <<inputs, obs, todo, dist, unit, tape_in, zip_filename, contents, strategy,
                 vol_in>>

\* lines 200-216: what the number of images decides
VolBranch ==
  /\ pc = "vol_images"
  /\ IF Len(images) = 0
       THEN /\ Abort("NoImages")
            /\ log' = Append(log, Ev("err", <<>>, "No images extracted!", <<>>))
            /\ UNCHANGED vol_in
     ELSE IF Len(images) = 1
       THEN /\ vol_in' = images[1]
            /\ pc' = "vol_convert"
            /\ UNCHANGED <<status, error, log>>
     ELSE /\ vol_in' = JoinTarget(images)
          /\ pc' = "vol_join"
          /\ UNCHANGED <<status, error, log>>
  /\ UNCHANGED <<inputs, obs, fs, todo, dist, unit, tape_in, zip_filename, contents,
                 strategy, images>>

\* lines 217-228; rc is the exit status of dasdcopy -lfs, which is 0 only if
\* the first fragment is there to read
VolJoin ==
  /\ pc = "vol_join"
  /\ \E rc \in {0, 1} :
       LET chk == checkPath(fs, vol_in, force)
           cmd == JoinCmd(chk, images[1], vol_in)
           checked == Ev("check", vol_in, chk, <<>>)
           joined == Write(fs, vol_in, Content("joined", images[1], 0))
           gone == RemoveEach(joined, images)
       IN /\ rc = 0 => images[1] \in DOMAIN fs
          /\ IF chk = "exit"
               THEN /\ rc = 1
                    /\ Abort("PathExists")
                    /\ log' = Append(log, checked)
                    /\ UNCHANGED fs
             ELSE IF rc # 0
               THEN /\ Abort("CalledProcessError")
                    /\ log' = log \o <<checked, Ev("run", <<>>, "1", cmd)>>
                    /\ UNCHANGED fs
             ELSE /\ fs' = gone.fs
                  /\ log' = log \o <<checked, Ev("run", <<>>, "0", cmd),
                                     Ev("write", vol_in, "", <<>>)>> \o gone.ev
                  /\ IF gone.ok
                       THEN /\ pc' = "vol_convert"
                            /\ UNCHANGED <<status, error>>
                       ELSE Abort("FileNotFoundError")
  /\ UNCHANGED <<inputs, obs, locals>>

\* lines 230-252; rc is the exit status of dasdcopy, which is 0 only if
\* vol_in is there to read
VolConvert ==
  /\ pc = "vol_convert"
  /\ \E rc \in {0, 1} :
       LET vol_out == VolOut(vol_in, output_format)
           chk == checkPath(fs, vol_out, force)
           cmd == VolCmd(chk, compression, output_format, vol_in, vol_out)
           checked == Ev("check", vol_out, chk, <<>>)
       IN /\ rc = 0 => vol_in \in DOMAIN fs
          /\ IF chk = "exit"
               THEN /\ rc = 1
                    /\ Abort("PathExists")
                    /\ log' = Append(log, checked)
                    /\ UNCHANGED <<fs, outputs>>
             ELSE IF rc # 0
               THEN /\ Abort("CalledProcessError")
                    /\ log' = log \o <<checked, Ev("run", <<>>, "1", cmd)>>
                    /\ UNCHANGED <<fs, outputs>>
             ELSE /\ fs' = VolDone(fs, vol_in, vol_out)
                  /\ log' = log \o <<checked, Ev("run", <<>>, "0", cmd),
                                     Ev("write", vol_out, "", <<>>),
                                     Ev("remove", vol_in, "", <<>>)>>
                  /\ outputs' = Produced(outputs, fs', vol_out)
                  /\ pc' = "vol_loop"
                  /\ UNCHANGED <<status, error>>
  /\ UNCHANGED <<inputs, catalog, stdout, locals>>

\* the volume loop is over: convert returns
Finish ==
  /\ pc = "vol_loop"
  /\ todo = <<>>
  /\ pc' = "exit"
  /\ status' = 0
  /\ UNCHANGED <<inputs, obs, fs, error, locals, log>>

(***************************************************************************)
(* dump                                                                    *)
(***************************************************************************)

\* sep.join(items)
RECURSIVE JoinWith(_, _)
JoinWith(sep, items) ==
  IF items = <<>> THEN <<>>
  ELSE IF Len(items) = 1 THEN items[1]
  ELSE items[1] \o sep \o JoinWith(sep, Tail(items))

\* the lines dump prints for a catalog: "{} tapes: {}" or "{} volumes: {}"
\* with the distribution and " ".join(sorted(units)), in the catalog's order
RECURSIVE DumpLines(_, _)
DumpLines(cat, word) ==
  IF Len(cat) = 0 THEN <<>>
  ELSE <<cat[1][1] \o <<" ">> \o word \o <<":", " ">>
         \o JoinWith(<<" ">>, sorted(cat[1][2]))>>
       \o DumpLines(SubSeq(cat, 2, Len(cat)), word)

\* what the current run has printed, followed by lines
Echo(out, lines) == [out EXCEPT ![Len(out)] = out[Len(out)] \o lines]

\* a dump that keeps a listing of what it printed in the destination directory
DumpTapesKeepsListing ==
  /\ mode = "dump"
  /\ pc = "start"
  /\ LET iso_tapes == getTapes(disc)
     IN /\ catalog' = iso_tapes
        /\ stdout' = Echo(stdout, DumpLines(iso_tapes, <<"t", "a", "p", "e", "s">>))
  /\ fs' = Write(fs, join(dest, <<"t", "a", "p", "e", "s">>), Content("old", <<>>, 0))
  /\ log' = log \o <<Ev("open", <<>>, "iso", <<>>), Ev("close", <<>>, "iso", <<>>)>>
  /\ pc' = "dump_volumes"
  /\ UNCHANGED <<inputs, status, error, locals, outputs>>

\* lines 258-261
DumpTapes ==
  /\ mode = "dump"
  /\ pc = "start"
  /\ LET iso_tapes == getTapes(disc)
     IN /\ catalog' = iso_tapes
        /\ stdout' = Echo(stdout, DumpLines(iso_tapes, <<"t", "a", "p", "e", "s">>))
  /\ log' = log \o <<Ev("open", <<>>, "iso", <<>>), Ev("close", <<>>, "iso", <<>>)>>
  /\ pc' = "dump_volumes"
  /\ UNCHANGED <<inputs, fs, status, error, locals, outputs>>

\* lines 263-266, after which dump returns
DumpVolumes ==
  /\ pc = "dump_volumes"
  /\ LET iso_volumes == getVolumes(disc)
     IN /\ catalog' = iso_volumes
        /\ stdout' = Echo(stdout, DumpLines(iso_volumes,
                                            <<"v", "o", "l", "u", "m", "e", "s">>))
  /\ log' = log \o <<Ev("open", <<>>, "iso", <<>>), Ev("close", <<>>, "iso", <<>>)>>
  /\ pc' = "exit"
  /\ status' = 0
  /\ UNCHANGED <<inputs, fs, error, locals, outputs>>

\* dump is run once more on the same disc
DumpAgain ==
  /\ mode = "dump"
  /\ pc = "exit"
  /\ Len(stdout) < MaxDumps
  /\ stdout' = Append(stdout, <<>>)
  /\ catalog' = <<>>
  /\ pc' = "start"
  /\ status' = -1
  /\ UNCHANGED <<inputs, fs, error, locals, outputs, log>>

Next ==
  \/ RequireCommands
  \/ GetTapes
  \/ TapeGetFile
  \/ TapeRun
  \/ GetVolumes
  \/ VolGetFile
  \/ VolOpenZip
  \/ VolExtractEntry
  \/ VolFinish
  \/ VolBranch
  \/ VolJoin
  \/ VolConvert
  \/ Finish
  \/ DumpTapes
  \/ DumpVolumes
  \/ DumpAgain

Spec == Init /\ [][Next]_vars

(***************************************************************************)
(* Properties                                                              *)
(***************************************************************************)

\* p names a file inside the destination directory
InDest(p) == Len(p) > Len(dest) + 1 /\ SubSeq(p, 1, Len(dest) + 1) = dest \o <<"/">>

\* the contents of the intermediate files: a copy taken from the disc, an
\* extracted fragment (whole or empty), a joined image
TempKinds == {"iso", "entry", "empty", "joined"}

\* the log entries a step adds
NewEvents == SubSeq(log', Len(log) + 1, Len(log'))

HasWord(cmd, w) == \E i \in 1..Len(cmd) : cmd[i] = w

LFS == <<"-", "l", "f", "s">>

\* convert is between two units, or has ended
BetweenUnits == pc \in {"tape_loop", "vol_loop", "exit"}

\* C1: once convert has stopped working on a unit, whether its job succeeded
\* or failed, no intermediate file (.IPL copy, .ZIP copy, fragment, joined
\* .img) is left in the destination directory.
C1_NoTemporaryArtifactSurvives ==
  BetweenUnits =>
    \A p \in DOMAIN fs : InDest(p) => fs[p].kind \notin TempKinds

\* C2, as claimed: when checkPath ends the run, the exit status is 1 and the
\* file at the path is as it was before the run.
C2_AbortLeavesFileAsBeforeRun ==
  \A i \in 1..Len(log) :
     (log[i].op = "check" /\ log[i].ret = "exit") =>
        /\ pc = "exit" /\ status = 1
        /\ \/ IsDir(log[i].path)
           \/ /\ log[i].path \in DOMAIN fs0
              /\ log[i].path \in DOMAIN fs
              /\ fs[log[i].path] = fs0[log[i].path]

\* C2, amended: checkPath returns false exactly when the path is absent, true
\* exactly when it is present and overwrite is set, and ends the run exactly
\* when it is present and overwrite is not set; the run then has exit status
\* 1 and every file is as it was when checkPath was called.
C2_CheckPathOutcomes ==
  [][\A i \in 1..Len(NewEvents) :
       NewEvents[i].op = "check" =>
         LET p == NewEvents[i].path
             ret == NewEvents[i].ret
         IN /\ ret \in {"false", "true", "exit"}
            /\ ret = "false" <=> ~exists(fs, p)
            /\ ret = "true" <=> (exists(fs, p) /\ force)
            /\ ret = "exit" <=> (exists(fs, p) /\ ~force)
            /\ ret = "exit" => (pc' = "exit" /\ status' = 1 /\ fs' = fs)]_vars

\* a run that checkPath ended on a file that was there
C2_Witness ==
  /\ pc = "exit" /\ status = 1 /\ error = "PathExists"
  /\ log[Len(log)].op = "check" /\ log[Len(log)].ret = "exit"
  /\ log[Len(log)].path \in DOMAIN fs
  /\ \E i \in 1..Len(log) : log[i].op = "check" /\ log[i].ret = "false"

\* C3: every write to a path is preceded by a checkPath of that path that
\* let the run go on, with no other write to the path in between.
C3_EveryWriteChecked ==
  \A i \in 1..Len(log) :
     log[i].op = "write" =>
       \E j \in 1..(i - 1) :
          /\ log[j].op = "check" /\ log[j].path = log[i].path /\ log[j].ret # "exit"
          /\ \A k \in (j + 1)..(i - 1) :
                ~(log[k].op = "write" /\ log[k].path = log[i].path)

\* C4: when extractVolume returns for an archive of K >= 1 entries, images
\* holds the K paths dest/basename(entry name) in ascending order, each of
\* these files holds its entry's bytes, and the archive copy is gone.
C4_ExtractVolumeResult ==
  (pc = "vol_images" /\ Len(archive.entries) >= 1) =>
    LET K == Len(archive.entries)
        PathOf(i) == join(dest, basename(archive.entries[i].name))
    IN /\ Len(images) = K
       /\ \A i \in 1..K : \E j \in 1..K : images[j] = PathOf(i)
       /\ \A j \in 1..K : \E i \in 1..K : images[j] = PathOf(i)
       /\ \A i, j \in 1..K : i < j => ~StrLess(images[j], images[i])
       /\ \A i \in 1..K :
             /\ PathOf(i) \in DOMAIN fs
             /\ fs[PathOf(i)] = Content("entry", archive.entries[i].name, i)
       /\ zip_filename \notin DOMAIN fs

\* C5: for a volume of more than one fragment, a join that exits with 0
\* leaves none of the fragment files, and a join that exits otherwise ends
\* the run with every fragment file as it was.
C5_JoinRemovesAllOrNone ==
  [][\A i \in 1..Len(NewEvents) :
       (NewEvents[i].op = "run" /\ HasWord(NewEvents[i].cmd, LFS)) =>
         /\ Len(images) > 1
         /\ NewEvents[i].ret = "0" =>
              \A k \in 1..Len(images) : images[k] \notin DOMAIN fs'
         /\ NewEvents[i].ret # "0" =>
              /\ pc' = "exit" /\ status' = 1
              /\ \A k \in 1..Len(images) :
                    images[k] \in DOMAIN fs =>
                      (images[k] \in DOMAIN fs' /\ fs'[images[k]] = fs[images[k]])]_vars

\* C6: with one fragment vol_in is that fragment's path; with more it is the
\* destination directory joined with the first fragment's file name up to
\* its first underscore, followed by ".img".
C6_ImagePathFromFileName ==
  pc \in {"vol_join", "vol_convert"} =>
    IF Len(images) = 1
      THEN vol_in = images[1] /\ pc = "vol_convert"
      ELSE vol_in = join(dest, split0(basename(images[1])) \o EXT_IMG)

\* the word each compression puts on a command line
VolFlag == [c \in Compressions |->
              IF c = "zlib" THEN <<"-", "z">>
              ELSE IF c = "bzip2" THEN <<"-", "b", "z", "2">>
              ELSE <<"-", "0">>]
TapeFlag == [c \in Compressions |->
               IF c = "zlib" THEN <<"-", "z">>
               ELSE IF c = "bzip2" THEN <<"-", "b">>
               ELSE <<"-", "d">>]

\* C7: the conversion command of a volume is dasdcopy -q, -r exactly when the
\* output path existed and overwrite was requested, the compression's flag,
\* -o and the upper-cased format, the input, and the output named by the
\* input's stem and the lower-cased format; that of a tape is hetupd, the
\* compression's flag, the input and the output.
C7_CommandLines ==
  [][\A i \in 1..Len(NewEvents) :
       NewEvents[i].op = "run" =>
         /\ pc = "vol_convert" =>
              LET out == splitext0(vol_in) \o <<".">> \o lower(output_format)
              IN NewEvents[i].cmd =
                   <<DASDCOPY, <<"-", "q">>>>
                   \o (IF exists(fs, out) /\ force THEN <<<<"-", "r">>>> ELSE <<>>)
                   \o <<VolFlag[compression], <<"-", "o">>, upper(output_format),
                        vol_in, out>>
         /\ pc = "tape_run" =>
              NewEvents[i].cmd =
                <<HETUPD, TapeFlag[compression], tape_in,
                  join(dest, unit \o EXT_HET)>>]_vars

\* a volume conversion was run with -r and the bzip2 flag
C7_Witness ==
  \E i \in 1..Len(log) :
     /\ log[i].op = "run"
     /\ log[i].cmd[1] = DASDCOPY
     /\ ~HasWord(log[i].cmd, LFS)
     /\ HasWord(log[i].cmd, <<"-", "r">>)
     /\ HasWord(log[i].cmd, <<"-", "b", "z", "2">>)

\* C8: after a conversion command has exited with 0 its input file is gone
\* and its output file is there; after it has exited otherwise the run has
\* ended.
C8_ConversionLeavesOnlyOutput ==
  \A i \in 1..Len(log) :
     (log[i].op = "run" /\ ~HasWord(log[i].cmd, LFS)) =>
        LET n == Len(log[i].cmd)
        IN IF log[i].ret = "0"
             THEN (pc \in {"tape_loop", "vol_loop"} /\ i = Len(log) - 2) =>
                     /\ log[i].cmd[n - 1] \notin DOMAIN fs
                     /\ log[i].cmd[n] \in DOMAIN fs
             ELSE pc = "exit" /\ status = 1

\* s ends with suffix
EndsWith(s, suffix) ==
  Len(s) >= Len(suffix) /\ SubSeq(s, Len(s) - Len(suffix) + 1, Len(s)) = suffix

\* the tape units of the disc
TapeUnits == {Flatten(getTapes(disc))[i][2] : i \in 1..Len(Flatten(getTapes(disc)))}

\* C9: a run that ends with status 0 leaves in the destination directory
\* only what was there before, as it was, and converted outputs: a tape's
\* <tape>.het and a volume's image named with the format's extension.
C9_SuccessLeavesOnlyOutputs ==
  (pc = "exit" /\ status = 0) =>
    \A p \in DOMAIN fs :
       InDest(p) =>
         \/ p \in DOMAIN fs0 /\ fs[p] = fs0[p]
         \/ fs[p].kind = "het" /\ \E t \in TapeUnits : p = join(dest, t \o EXT_HET)
         \/ fs[p].kind = "dasd" /\ EndsWith(p, <<".">> \o lower(output_format))

\* a run has ended with status 0 after converting a tape and a volume of
\* several fragments
C9_Witness ==
  /\ pc = "exit" /\ status = 0
  /\ \E p \in DOMAIN fs : InDest(p) /\ fs[p].kind = "het"
  /\ \E p \in DOMAIN fs : InDest(p) /\ fs[p].kind = "dasd"
  /\ \E i \in 1..Len(log) : log[i].op = "run" /\ HasWord(log[i].cmd, LFS)

\* C10: nothing is opened, checked, written, removed or run before the
\* required commands are looked up; if one is absent the run ends with
\* status 1 after one message naming every absent command, and nothing else
\* has happened.
C10_CommandsCheckedFirst ==
  mode = "convert" =>
  /\ Len(log) > 0 => log[1].op = "which"
  /\ (installed # AllCommands /\ pc # "start") =>
        /\ pc = "exit" /\ status = 1
        /\ Len(log) = 2
        /\ log[2].op = "err"
        /\ {log[2].cmd[k] : k \in 1..Len(log[2].cmd)} = AllCommands \ installed
        /\ Len(log[2].cmd) = Cardinality(AllCommands \ installed)
        /\ fs = fs0

\* a run has ended on two or more absent commands
C10_Witness ==
  /\ pc = "exit" /\ status = 1
  /\ Cardinality(AllCommands \ installed) >= 2
  /\ Len(log) = 2 /\ Len(log[2].cmd) >= 2

\* C11: once a fatal error has occurred the run has ended with status 1, so
\* that no later unit is extracted or converted, and every final output
\* produced for an earlier unit is still there with the content it was
\* produced with.
C11_FatalErrorKeepsEarlierOutputs ==
  error # "" =>
    /\ pc = "exit" /\ status = 1
    /\ \A k \in 1..Len(outputs) :
          /\ outputs[k].path \in DOMAIN fs
          /\ fs[outputs[k].path] = outputs[k].content

\* the index at which sub first occurs in s, 0 if nowhere
FirstAt(s, sub) ==
  IF Contains(s, sub)
    THEN CHOOSE i \in 1..Len(s) :
           /\ i + Len(sub) - 1 <= Len(s)
           /\ SubSeq(s, i, i + Len(sub) - 1) = sub
           /\ \A j \in 1..(i - 1) :
                 ~(j + Len(sub) - 1 <= Len(s) /\ SubSeq(s, j, j + Len(sub) - 1) = sub)
    ELSE 0

\* the files of the disc whose name contains the extension, whatever the case
Matching(ext) ==
  {i \in 1..Len(disc) : Contains(lower(disc[i].name), <<".">> \o ext)}

\* a file's name up to the extension
Stem(name, ext) == SubSeq(name, 1, FirstAt(lower(name), <<".">> \o ext) - 1)

\* the name of the directory a file is in
ParentOf(i) == basename(disc[i].root)

\* cat lists each parent directory of a matching file once, and under it each
\* unit id of its matching files once, and nothing else
CatalogOf(cat, ext) ==
  /\ \A i \in Matching(ext) :
        \E k \in 1..Len(cat) :
           /\ cat[k][1] = ParentOf(i)
           /\ \E u \in 1..Len(cat[k][2]) : cat[k][2][u] = Stem(disc[i].name, ext)
  /\ \A k \in 1..Len(cat) :
        /\ \A u \in 1..Len(cat[k][2]) :
              \E i \in Matching(ext) :
                 ParentOf(i) = cat[k][1] /\ Stem(disc[i].name, ext) = cat[k][2][u]
        /\ \A u, v \in 1..Len(cat[k][2]) : u < v => cat[k][2][u] # cat[k][2][v]
        /\ \A j \in 1..Len(cat) : j < k => cat[j][1] # cat[k][1]

\* C12: the catalog walkISO returns holds, under the name of each immediate
\* parent directory, exactly the unit ids of the files whose name contains
\* the extension in any case, a unit id being the name up to the extension,
\* and holds no unit id twice under one distribution.
C12_CatalogHoldsEachUnitOnce ==
  /\ pc \in {"tape_loop", "tape_run", "dump_volumes"} =>
        CatalogOf(catalog, <<"i", "p", "l">>)
  /\ pc \in {"vol_loop", "vol_open", "vol_entry", "vol_images"} =>
        CatalogOf(catalog, <<"z", "i", "p">>)

\* the words of a line: its parts between single spaces
RECURSIVE Words(_)
Words(line) ==
  IF Find(line, " ") = 0 THEN <<line>>
  ELSE <<SubSeq(line, 1, Find(line, " ") - 1)>>
       \o Words(SubSeq(line, Find(line, " ") + 1, Len(line)))

\* no element of sq is followed by one that sorts before it
Ascending(sq) == \A i, j \in 1..Len(sq) : i < j => ~StrLess(sq[j], sq[i])

\* a unit is being worked on
OnUnit == pc \in {"tape_run", "vol_open", "vol_entry", "vol_images", "vol_join",
                  "vol_convert"}

\* C13: the unit ids of a distribution are handled in ascending order whatever
\* order the walk met them in: every line dump prints lists its units in
\* ascending order, and convert works on no unit while a unit of the same
\* distribution that sorts before it is still to be done.
C13_UnitsInAscendingOrder ==
  /\ \A r \in 1..Len(stdout) : \A k \in 1..Len(stdout[r]) :
        LET w == Words(stdout[r][k])
        IN Len(w) >= 3 /\ Ascending(SubSeq(w, 3, Len(w)))
  /\ OnUnit =>
        \A k \in 1..Len(todo) :
           todo[k][1] = dist => ~StrLess(todo[k][2], unit)

NoMedia == Len(getTapes(disc)) = 0 /\ Len(getVolumes(disc)) = 0

\* C15: convert ends with status 1 when a required command is absent, when
\* the disc holds no media of either kind, when a volume yields no image or
\* on any other fatal error, and with status 0 otherwise; a disc with units
\* of one kind only does not by that alone end with status 1.
C15_ExitStatus ==
  (mode = "convert" /\ pc = "exit") =>
    status = IF \/ installed # AllCommands
                \/ NoMedia
                \/ error # ""
               THEN 1 ELSE 0

\* the kinds of handle the log records: the disc image, an archive, the
\* stream of an entry read in-process, the pipe of an unzip subprocess
HandleKinds == {"iso", "zip", "stream", "pipe"}

\* how many handles of kind h the log shows opened and not closed
OpenCount(h) ==
  Cardinality({i \in 1..Len(log) : log[i].op = "open" /\ log[i].ret = h})
  - Cardinality({i \in 1..Len(log) : log[i].op = "close" /\ log[i].ret = h})

\* C16: whenever convert or dump is between two units or has ended, in
\* whatever way, every handle it opened has been closed.
C16_HandlesReleased ==
  BetweenUnits => \A h \in HandleKinds : OpenCount(h) = 0

\* C17: extractVolume does not get past an entry that cannot be read: while
\* it extracts, and when it returns, every entry it has written a fragment
\* for is one whose data can be read, and no fragment it has collected is an
\* empty file written for such an entry.
C17_UnreadableEntryAborts ==
  pc \in {"vol_entry", "vol_images"} =>
    \A k \in 1..Len(archive.entries) :
       ~archive.entries[k].ok => Len(images) < k

\* the index of the log entry that opened the archive being extracted
LastZip ==
  CHOOSE i \in 0..Len(log) :
     /\ i > 0 => (log[i].op = "open" /\ log[i].ret = "zip")
     /\ \A j \in (i + 1)..Len(log) : ~(log[j].op = "open" /\ log[j].ret = "zip")
     /\ i = 0 => \A j \in 1..Len(log) : ~(log[j].op = "open" /\ log[j].ret = "zip")

IsYield(e) == e.op = "open" /\ e.ret \in {"stream", "pipe"}

\* what extractZip has yielded for the archive being extracted, in order
Yields == SelectSeq(SubSeq(log, LastZip + 1, Len(log)), IsYield)

\* the probe meets an entry of an unsupported method before any entry whose
\* data cannot be read
ProbeUnsupported ==
  \E j \in 1..Len(archive.entries) :
     /\ ~archive.entries[j].sup
     /\ \A i \in 1..(j - 1) : archive.entries[i].sup /\ archive.entries[i].ok

\* C18: what extractZip has yielded for an archive is, at any time, the first
\* names of the archive in stored order, each once, and all of them once
\* extractVolume returns; the streams are all of one strategy, and they are
\* subprocess pipes only if the integrity probe met an unsupported method.
C18_EachEntryOnceOneStrategy ==
  pc \in {"vol_entry", "vol_images"} =>
    /\ Len(Yields) <= Len(archive.entries)
    /\ \A k \in 1..Len(Yields) : Yields[k].path = archive.entries[k].name
    /\ pc = "vol_images" => Len(Yields) = Len(archive.entries)
    /\ \A j, k \in 1..Len(Yields) : Yields[j].ret = Yields[k].ret
    /\ \A k \in 1..Len(Yields) : Yields[k].ret = "pipe" => ProbeUnsupported
    /\ (ProbeUnsupported /\ Len(Yields) > 0) => Yields[1].ret = "pipe"

\* extractVolume has returned for an archive of several entries read through
\* unzip, the unsupported entry not being the first
C18_Witness ==
  /\ pc = "vol_images"
  /\ Len(Yields) >= 2
  /\ Yields[1].ret = "pipe"
  /\ archive.entries[1].sup

\* C19: when extractVolume returns, the paths it returns are pairwise
\* distinct, each names a file that exists, and none is the path of the
\* archive copy, whatever the names of the archive's entries and whether or
\* not overwrite is set.
C19_ReturnedPathsDistinctAndPresent ==
  pc = "vol_images" =>
    /\ \A i, j \in 1..Len(images) : i < j => images[i] # images[j]
    /\ \A i \in 1..Len(images) : images[i] \in DOMAIN fs
    /\ \A i \in 1..Len(images) : images[i] # zip_filename

\* C20: a call of getFileFromIso that fails because the unit is on the disc
\* under neither name leaves the destination directory as it was before the
\* call: no file is created in it, and a file that was at the destination
\* path is still there with the content it had, also when overwrite is set.
C20_FailedLookupLeavesDestination ==
  [][error' = "NotFound" =>
       /\ \A p \in DOMAIN fs' : InDest(p) => p \in DOMAIN fs
       /\ \A p \in DOMAIN fs : InDest(p) => (p \in DOMAIN fs' /\ fs'[p] = fs[p])]_vars

====
